---- MODULE Spec2Model ----
(***************************************************************************)
(* BlSpecLayout of ecleankernel/layout/blspec.py: the layout constructor   *)
(* (machine identity token, boot directory) and find_kernels (boot-entry   *)
(* scan, module association by internal version, orphan reconciliation).   *)
(* Two specifications: SpecLayout runs the constructor over bounded roots, *)
(* Spec runs find_kernels over bounded filesystem snapshots.               *)
(***************************************************************************)
EXTENDS Integers, Sequences, FiniteSets, TLC

VARIABLES
    entryToken,   \* etc/kernel/entry-token: <<>> when absent, <<content>> when present
    machineId,    \* etc/machine-id: <<>> when absent, <<content>> when present
    dirs,         \* the directories that exist under the root (paths of components)
    lpc,          \* constructor position: "new", "constructed", "LayoutNotFound"
    kernel_id,    \* <<>> until read, then <<token>>
    bootdir,      \* <<>> until resolved, then <<path>>
    boot,         \* snapshot of the boot directory: entry name -> entry
    modules,      \* snapshot of lib/modules: entry name -> entry
    pc,           \* find_kernels position: "ready", "returned", "AssertionError"
    exclusions,   \* the exclusions argument of the call
    module_dict,  \* what get_module_dict returned to the call
    kernels,      \* list(kernels.values()): sequence of Kernel records
    scanned,      \* the directories the call has enumerated
    merged,       \* module keys that reached the orphan merge (line 109)
    created       \* module keys for which the orphan merge made a new Kernel

layoutVars == <<entryToken, machineId, dirs, lpc, kernel_id, bootdir>>
scanVars == <<boot, modules, pc, exclusions, module_dict, kernels, scanned,
              merged, created>>
vars == <<entryToken, machineId, dirs, lpc, kernel_id, bootdir, boot, modules,
          pc, exclusions, module_dict, kernels, scanned, merged, created>>

-----------------------------------------------------------------------------
(* Bounds *)

\* longest content of an identity file, in characters
MaxLen == 2
\* most filesystem objects of a snapshot: boot entries, the files inside
\* them, module trees and their build links
MaxObjects == 5

-----------------------------------------------------------------------------
(* Generic helpers *)

Range(s) == {s[i] : i \in DOMAIN s}

Count(s, f) == Cardinality({i \in DOMAIN s : s[i] = f})

SeqsUpTo(S, n) == UNION {[1..k -> S] : k \in 0..n}

Min(S) == CHOOSE x \in S : \A y \in S : x <= y

-----------------------------------------------------------------------------
(* Layout construction: BlSpecLayout.__init__ *)

\* Characters of identity-file contents; names are sequences of characters.
Whitespace == {" ", "\n"}
Chars == {"a"} \cup Whitespace

BOOT == <<"b", "o", "o", "t">>
EFI == <<"E", "F", "I">>
efi == <<"e", "f", "i">>

\* potential_dirs with the plain boot directory probed first
potential_dirs_boot_first == << <<BOOT>>, <<BOOT, EFI>>, <<BOOT, efi>>, <<efi>> >>

\* potential_dirs, each a path of components
potential_dirs == << <<BOOT, EFI>>, <<BOOT, efi>>, <<BOOT>>, <<efi>> >>

\* str.strip(): drop leading and trailing whitespace
RECURSIVE LStrip(_)
LStrip(s) ==
    IF s # <<>> /\ Head(s) \in Whitespace THEN LStrip(Tail(s)) ELSE s

RECURSIVE RStrip(_)
RStrip(s) ==
    IF s # <<>> /\ s[Len(s)] \in Whitespace
    THEN RStrip(SubSeq(s, 1, Len(s) - 1))
    ELSE s

Strip(s) == RStrip(LStrip(s))

\* the candidate identity files, in the order the loop opens them
IdentityFiles == <<entryToken, machineId>>

\* the loop without the strip() of what was read
ReadKernelIdUnstripped(files) ==
    LET opened == {i \in DOMAIN files : files[i] # <<>>}
    IN  IF opened = {} THEN <<>> ELSE <<files[Min(opened)][1]>>

\* the for/try/break loop: the first file that opens is read and stripped;
\* <<>> when every open raised FileNotFoundError (the loop's else branch)
ReadKernelId(files) ==
    LET opened == {i \in DOMAIN files : files[i] # <<>>}
    IN  IF opened = {} THEN <<>> ELSE <<Strip(files[Min(opened)][1])>>

\* pathlib's path / name: an empty name adds no component
JoinPath(p, name) == IF name = <<>> THEN p ELSE Append(p, name)

\* the candidates root / d / kernel_id, in probing order
BootCandidates(token) ==
    [i \in DOMAIN potential_dirs |-> JoinPath(potential_dirs[i], token)]

\* the probing loop: index of the first candidate that is a directory, 0 if none
ProbeBootDir(token, existing) ==
    LET hits == {i \in DOMAIN potential_dirs : BootCandidates(token)[i] \in existing}
    IN  IF hits = {} THEN 0 ELSE Min(hits)

\* raise LayoutNotFound("/etc/machine-id not found")
ConstructNoIdentity ==
    /\ lpc = "new"
    /\ ReadKernelId(IdentityFiles) = <<>>
    /\ lpc' = "LayoutNotFound"
    /\ UNCHANGED <<entryToken, machineId, dirs, kernel_id, bootdir>>
    /\ UNCHANGED scanVars

\* raise LayoutNotFound(f"/boot/[EFI/]{kernel_id} not found"); self.bootdir was
\* last assigned the final candidate
ConstructNoBootDir ==
    /\ lpc = "new"
    /\ ReadKernelId(IdentityFiles) # <<>>
    /\ LET id == ReadKernelId(IdentityFiles)
       IN  /\ ProbeBootDir(id[1], dirs) = 0
           /\ kernel_id' = id
           /\ bootdir' = <<BootCandidates(id[1])[Len(potential_dirs)]>>
    /\ lpc' = "LayoutNotFound"
    /\ UNCHANGED <<entryToken, machineId, dirs>>
    /\ UNCHANGED scanVars

\* return with self.bootdir the first candidate that is a directory
ConstructOk ==
    /\ lpc = "new"
    /\ ReadKernelId(IdentityFiles) # <<>>
    /\ LET id == ReadKernelId(IdentityFiles)
           hit == ProbeBootDir(id[1], dirs)
       IN  /\ hit # 0
           /\ kernel_id' = id
           /\ bootdir' = <<BootCandidates(id[1])[hit]>>
    /\ lpc' = "constructed"
    /\ UNCHANGED <<entryToken, machineId, dirs>>
    /\ UNCHANGED scanVars

\* Roots the constructor is run on: each identity file absent or a readable
\* regular file of at most MaxLen characters; directories closed under parents.
Contents == SeqsUpTo(Chars, MaxLen)
OptContents == {<<>>} \cup {<<c>> : c \in Contents}
DirNames == {<<"a">>, <<"a", "a">>}
DirUniverse ==
    Range(potential_dirs)
        \cup {Append(potential_dirs[i], t) : i \in DOMAIN potential_dirs, t \in DirNames}
ParentClosed(S) ==
    \A p \in S : Len(p) > 1 => SubSeq(p, 1, Len(p) - 1) \in S

InitLayout ==
    /\ entryToken \in OptContents
    /\ machineId \in OptContents
    /\ dirs \in {S \in SUBSET DirUniverse : ParentClosed(S)}
    /\ lpc = "new"
    /\ kernel_id = <<>>
    /\ bootdir = <<>>
    /\ boot = <<>>
    /\ modules = <<>>
    /\ pc = "ready"
    /\ exclusions = {}
    /\ module_dict = <<>>
    /\ kernels = <<>>
    /\ scanned = {}
    /\ merged = {}
    /\ created = {}

NextLayout == ConstructNoIdentity \/ ConstructNoBootDir \/ ConstructOk

SpecLayout == InitLayout /\ [][NextLayout]_vars

-----------------------------------------------------------------------------
(* File records and Kernel: ecleankernel.file, ecleankernel.kernel *)

KernelFileTypes == {"KERNEL", "INITRAMFS", "MODULES", "MISC"}

GenericFile(path, ftype) ==
    [variant |-> "GenericFile", path |-> path, ftype |-> ftype,
     internal_version |-> <<>>]

\* a successfully parsed kernel image carrying its internal version
KernelImage(path, ver) ==
    [variant |-> "KernelImage", path |-> path, ftype |-> "KERNEL",
     internal_version |-> <<ver>>]

EmptyDirectory(path) ==
    [variant |-> "EmptyDirectory", path |-> path, ftype |-> "EMPTYDIR",
     internal_version |-> <<>>]

ModuleDirectory(path) ==
    [variant |-> "ModuleDirectory", path |-> path, ftype |-> "MODULES",
     internal_version |-> <<>>]

Kernel(ver) == [version |-> ver, all_files |-> <<>>]

\* Kernel.real_kv: the internal version of the Kernel's KernelImage, <<>> if none
real_kv(k) ==
    LET imgs == {i \in DOMAIN k.all_files : k.all_files[i].variant = "KernelImage"}
    IN  IF imgs = {} THEN <<>> ELSE k.all_files[Min(imgs)].internal_version

-----------------------------------------------------------------------------
(* Filesystem snapshots read by find_kernels *)

BootNames == {".v1", "v1", "v2"}
FileNames == {".keep", "config", "initrd", "linux"}
ModNames == {"v1", "v2"}
Versions == {"v1", "v2"}

\* str.startswith('.') over the names of the snapshots
DotNames == {".v1", ".keep"}
StartsWithDot(n) == n \in DotNames

\* os.listdir and dict.items yield names in an order the code does not
\* control: the names of S in one of two opposite orders
ListOrders ==
    {<<".keep", ".v1", "config", "initrd", "linux", "v1", "v2">>,
     <<"v2", "v1", "linux", "initrd", "config", ".v1", ".keep">>}
Listing(ord, S) == SelectSeq(ord, LAMBDA n : n \in S)

BOOTDIR == "bootdir"
MODDIR == "lib/modules"

-----------------------------------------------------------------------------
(* ModuleDirLayout.get_module_dict *)

\* the records of one module tree, before exclusions
ModuleTreeFiles(n, e) ==
    <<ModuleDirectory(<<MODDIR, n>>)>>
        \o (IF e.build THEN <<GenericFile(<<MODDIR, n, "build">>, "MISC")>> ELSE <<>>)

\* version directory name -> records not excluded; hidden entries, symlinks
\* and non-directories are skipped; track says whether a tree all of whose
\* records are excluded keeps its key
get_module_dict(mods, excl, track) ==
    LET trees == {n \in DOMAIN mods :
                     ~StartsWithDot(n) /\ mods[n].kind = "dir"}
        recs(n) == SelectSeq(ModuleTreeFiles(n, mods[n]),
                             LAMBDA f : f.ftype \notin excl)
        keys == {n \in trees : track \/ recs(n) # <<>>}
    IN  [n \in keys |-> recs(n)]

-----------------------------------------------------------------------------
(* BlSpecLayout.find_kernels *)

\* name_map.get(fn, KernelFileType.MISC)
name_map(fn) ==
    IF fn = "initrd" THEN "INITRAMFS"
    ELSE IF fn = "linux" THEN "KERNEL"
    ELSE "MISC"

\* the call without its assert
PreconditionUnchecked(excl) == TRUE

\* assert KernelFileType.KERNEL not in exclusions
PreconditionHolds(excl) == "KERNEL" \notin excl

\* Path.is_symlink
is_symlink(e) == e.kind = "symlink"

\* Path.is_dir, which follows symlinks: a symlink entry points to a directory
is_dir(e) == e.kind \in {"dir", "symlink"}

\* the outer loop without the is_symlink test
SkipBootEntryFollowsLinks(ver, e) == StartsWithDot(ver) \/ ~is_dir(e)

\* the two continue conditions of the outer loop
SkipBootEntry(ver, e) ==
    StartsWithDot(ver) \/ is_symlink(e) \/ ~is_dir(e)

\* an unparsed image demoted to a MISC record
FileObjectDemoted(path, ftype, parse) ==
    IF ftype = "KERNEL" /\ parse # <<>>
    THEN KernelImage(path, parse[1])
    ELSE IF ftype = "KERNEL" THEN GenericFile(path, "MISC")
    ELSE GenericFile(path, ftype)

\* fobj after the try/except/else: the KernelImage when the file is in the
\* KERNEL slot and parses, otherwise the GenericFile built first
FileObject(path, ftype, parse) ==
    IF ftype = "KERNEL" /\ parse # <<>>
    THEN KernelImage(path, parse[1])
    ELSE GenericFile(path, ftype)

\* module association by the boot entry's directory name
AssocKeyByName(ver, kobj) == ver

\* the key looked up in module_dict for a parsed image
AssocKey(ver, kobj) == kobj.internal_version[1]

\* module_dict.get(key, [])
ModuleLookup(md, key) == IF key \in DOMAIN md THEN md[key] ELSE <<>>

\* the append without the exclusion test
KeepAlways(ftype, excl) == TRUE

\* if ftype not in exclusions
Keep(ftype, excl) == ftype \notin excl

\* one iteration of the inner loop over the files of a boot entry
ScanFile(k, ver, fn, e, md, excl) ==
    IF StartsWithDot(fn) THEN k
    ELSE
        LET path == <<BOOTDIR, ver, fn>>
            ftype == name_map(fn)
            fobj == FileObject(path, ftype, e.parse)
            assoc == IF fobj.variant = "KernelImage"
                     THEN ModuleLookup(md, AssocKey(ver, fobj))
                     ELSE <<>>
            k1 == [k EXCEPT !.all_files = @ \o assoc]
        IN  IF Keep(ftype, excl)
            THEN [k1 EXCEPT !.all_files = Append(@, fobj)]
            ELSE k1

RECURSIVE ScanFiles(_, _, _, _, _, _)
ScanFiles(k, ver, fns, e, md, excl) ==
    IF fns = <<>> THEN k
    ELSE ScanFiles(ScanFile(k, ver, Head(fns), e, md, excl),
                   ver, Tail(fns), e, md, excl)

\* a boot entry without the record of its own directory
DirRecordsMissing(ver) == <<>>

\* k.all_files.append(EmptyDirectory(dir_path))
DirRecords(ver) == <<EmptyDirectory(<<BOOTDIR, ver>>)>>

\* kernels[ver] = k
DictSet(ks, k) ==
    LET at == {i \in DOMAIN ks : ks[i].version = k.version}
    IN  IF at = {} THEN Append(ks, k) ELSE [ks EXCEPT ![Min(at)] = k]

\* one iteration of the outer loop over the boot directory
ScanBootEntry(ks, ver, e, md, excl, ord) ==
    IF SkipBootEntry(ver, e) THEN ks
    ELSE
        LET k == ScanFiles(Kernel(ver), ver, Listing(ord, e.files), e, md, excl)
        IN  DictSet(ks, [k EXCEPT !.all_files = @ \o DirRecords(ver)])

RECURSIVE ScanBoot(_, _, _, _, _, _)
ScanBoot(ks, vers, b, md, excl, ord) ==
    IF vers = <<>> THEN ks
    ELSE ScanBoot(ScanBootEntry(ks, Head(vers), b[Head(vers)], md, excl, ord),
                  Tail(vers), b, md, excl, ord)

\* the orphan loop without its continue
OrphanNeverMatched(mkv, ks) == FALSE

\* the orphan loop matching on the Kernel's display version
OrphanMatchedByName(mkv, ks) == \E i \in DOMAIN ks : ks[i].version = mkv

\* any(mkv == k.real_kv for k in kernels.values())
OrphanMatched(mkv, ks) == \E i \in DOMAIN ks : real_kv(ks[i]) = <<mkv>>

\* kernels.setdefault(mkv, Kernel(mkv)).all_files.extend(fobjs)
SetDefaultExtend(ks, mkv, fobjs) ==
    LET at == {i \in DOMAIN ks : ks[i].version = mkv}
    IN  IF at = {}
        THEN Append(ks, [Kernel(mkv) EXCEPT !.all_files = @ \o fobjs])
        ELSE [ks EXCEPT ![Min(at)].all_files = @ \o fobjs]

\* one iteration of the orphan loop; st carries the dict and which keys were
\* merged and which made a new Kernel
MergeOrphan(st, mkv, md) ==
    IF OrphanMatched(mkv, st.kernels) THEN st
    ELSE [kernels |-> SetDefaultExtend(st.kernels, mkv, md[mkv]),
          merged |-> st.merged \cup {mkv},
          created |-> IF \E i \in DOMAIN st.kernels : st.kernels[i].version = mkv
                      THEN st.created
                      ELSE st.created \cup {mkv}]

RECURSIVE MergeOrphans(_, _, _)
MergeOrphans(st, mkvs, md) ==
    IF mkvs = <<>> THEN st
    ELSE MergeOrphans(MergeOrphan(st, Head(mkvs), md), Tail(mkvs), md)

\* the entries os.listdir(self.bootdir) yields
BootListing(ord, b) == Listing(ord, {n \in DOMAIN b : b[n].kind # "absent"})

\* the assert fails: AssertionError, nothing read, nothing returned
FindKernelsAssert(excl) ==
    /\ lpc = "constructed"
    /\ pc = "ready"
    /\ ~PreconditionHolds(excl)
    /\ exclusions' = excl
    /\ pc' = "AssertionError"
    /\ UNCHANGED <<boot, modules, module_dict, kernels, scanned, merged, created>>
    /\ UNCHANGED layoutVars

\* the call runs to its return
FindKernelsReturn(excl) ==
    /\ lpc = "constructed"
    /\ pc = "ready"
    /\ PreconditionHolds(excl)
    /\ exclusions' = excl
    /\ \E track \in BOOLEAN, ord \in ListOrders :
         LET md == get_module_dict(modules, excl, track)
             ks == ScanBoot(<<>>, BootListing(ord, boot), boot, md, excl, ord)
             st == MergeOrphans([kernels |-> ks, merged |-> {}, created |-> {}],
                                Listing(ord, DOMAIN md), md)
         IN  /\ module_dict' = md
             /\ kernels' = st.kernels
             /\ merged' = st.merged
             /\ created' = st.created
    /\ scanned' = {MODDIR, BOOTDIR}
    /\ pc' = "returned"
    /\ UNCHANGED <<boot, modules>>
    /\ UNCHANGED layoutVars

\* Snapshots: every entry a directory, a symlink to a directory or a plain
\* file; a plain file has no files inside, only a file named linux has a
\* parse outcome.
OptVersions == {<<>>} \cup {<<v>> : v \in Versions}
BootEntries ==
    {e \in [kind : {"absent", "dir", "symlink", "file"},
            files : SUBSET FileNames,
            parse : OptVersions] :
        /\ e.kind \in {"absent", "file"} => e.files = {}
        /\ "linux" \notin e.files => e.parse = <<>>}
ModuleEntries ==
    {e \in [kind : {"absent", "dir", "symlink"}, build : BOOLEAN] :
        e.kind # "dir" => ~e.build}

Present(f) == {n \in DOMAIN f : f[n].kind # "absent"}

RECURSIVE TotalFiles(_, _)
TotalFiles(b, S) ==
    IF S = {} THEN 0
    ELSE LET n == CHOOSE x \in S : TRUE
         IN  Cardinality(b[n].files) + TotalFiles(b, S \ {n})

BootObjects(b) == Cardinality(Present(b)) + TotalFiles(b, DOMAIN b)
ModuleObjects(m) ==
    Cardinality(Present(m)) + Cardinality({n \in DOMAIN m : m[n].build})

Init ==
    /\ entryToken = <<>>
    /\ machineId = << <<"a", "\n">> >>
    /\ dirs = {<<BOOT>>, <<BOOT, <<"a">>>>}
    /\ lpc = "constructed"
    /\ kernel_id = << <<"a">> >>
    /\ bootdir = << <<BOOT, <<"a">>>> >>
    /\ boot \in {b \in [BootNames -> BootEntries] : BootObjects(b) <= MaxObjects}
    /\ modules \in {m \in [ModNames -> ModuleEntries] :
                    BootObjects(boot) + ModuleObjects(m) <= MaxObjects}
    /\ pc = "ready"
    /\ exclusions = {}
    /\ module_dict = <<>>
    /\ kernels = <<>>
    /\ scanned = {}
    /\ merged = {}
    /\ created = {}

Next ==
    \E excl \in SUBSET KernelFileTypes :
        FindKernelsAssert(excl) \/ FindKernelsReturn(excl)

Spec == Init /\ [][Next]_vars

-----------------------------------------------------------------------------
(* Properties of find_kernels, stated over the snapshot and the result *)

Returned == pc = "returned"

Files(k) == Range(k.all_files)

\* positions of the result list holding a Kernel of display version v
Keyed(v) == {i \in DOMAIN kernels : kernels[i].version = v}

\* boot entries that are real, non-hidden directories
BootEntryDirs == {n \in BootNames : boot[n].kind = "dir" /\ n \notin DotNames}

\* boot entries that are hidden, symlinked or not directories
SkippedEntries == Present(boot) \ BootEntryDirs

HasLinux(n) == "linux" \in boot[n].files

\* mkv is the internal version of no boot entry's kernel image
Unmatched(mkv) == \A n \in BootEntryDirs : boot[n].parse # <<mkv>>

\* the fixed name table
TableType(fn) ==
    CASE fn = "initrd" -> "INITRAMFS"
      [] fn = "linux" -> "KERNEL"
      [] OTHER -> "MISC"

\* C1 (as claimed): in the returned list no FileRecord is in the all_files of
\* two different Kernels, also when two boot entries hold images of the same
\* internal version.
C1_ExclusiveOwnership ==
    Returned =>
        \A i, j \in DOMAIN kernels :
            i # j => Files(kernels[i]) \cap Files(kernels[j]) = {}

\* C1 (amended): every collected module FileRecord is in some Kernel, and a
\* FileRecord is in two different Kernels only when it is a module-tree record
\* and both are boot-entry Kernels whose images report that tree's key as
\* internal version.
C1_SharedOnlyBySameInternalVersion ==
    Returned =>
        /\ \A mkv \in DOMAIN module_dict : \A f \in Range(module_dict[mkv]) :
               \E i \in DOMAIN kernels : f \in Files(kernels[i])
        /\ \A i, j \in DOMAIN kernels :
               i # j =>
                   \A f \in Files(kernels[i]) \cap Files(kernels[j]) :
                       \E mkv \in DOMAIN module_dict :
                           /\ f \in Range(module_dict[mkv])
                           /\ \A x \in {kernels[i].version, kernels[j].version} :
                                  /\ x \in BootEntryDirs
                                  /\ HasLinux(x)
                                  /\ boot[x].parse = <<mkv>>

C1_Witness ==
    /\ Returned
    /\ \E i, j \in DOMAIN kernels :
           i # j /\ Files(kernels[i]) \cap Files(kernels[j]) # {}

\* C2 (as claimed): every module key matching no boot entry's internal version
\* has a Kernel of its own whose file list is exactly the tree's records, also
\* when a boot entry carries that key as its directory name.
C2_OrphanSeparate ==
    Returned =>
        \A mkv \in DOMAIN module_dict :
            Unmatched(mkv) =>
                \E i \in Keyed(mkv) : kernels[i].all_files = module_dict[mkv]

\* C2 (amended): every module key matching no boot entry's internal version
\* has exactly one Kernel keyed by it; with no boot entry of that name its file
\* list is exactly the tree's records, and with a boot entry of that name the
\* tree's records are appended to that entry's Kernel, after its
\* EmptyDirectory record.
C2_OrphanCreatedOrReused ==
    Returned =>
        \A mkv \in DOMAIN module_dict :
            Unmatched(mkv) =>
                /\ Cardinality(Keyed(mkv)) = 1
                /\ \A i \in Keyed(mkv) :
                       LET fs == kernels[i].all_files
                           n == Len(fs) - Len(module_dict[mkv])
                       IN  IF mkv \in BootEntryDirs
                           THEN /\ n >= 1
                                /\ SubSeq(fs, n + 1, Len(fs)) = module_dict[mkv]
                                /\ fs[n] = EmptyDirectory(<<BOOTDIR, mkv>>)
                                /\ \A x \in 1..n : fs[x] \notin Range(module_dict[mkv])
                           ELSE fs = module_dict[mkv]

C2_Witness ==
    /\ Returned
    /\ \E mkv \in DOMAIN module_dict :
           /\ Unmatched(mkv)
           /\ mkv \in BootEntryDirs
           /\ HasLinux(mkv)
           /\ boot[mkv].parse # <<>>
           /\ module_dict[mkv] # <<>>

\* C3: a module key equal to the internal version of a boot entry's parsed
\* image has all its records in that entry's Kernel, and the orphan pass
\* neither merges that key nor makes a Kernel for it.
C3_MatchedTreeAssociated ==
    Returned =>
        \A mkv \in DOMAIN module_dict : \A n \in BootEntryDirs :
            (HasLinux(n) /\ boot[n].parse = <<mkv>>) =>
                /\ Keyed(n) # {}
                /\ \A i \in Keyed(n) : Range(module_dict[mkv]) \subseteq Files(kernels[i])
                /\ mkv \notin merged
                /\ mkv \notin created
                /\ mkv \notin BootEntryDirs => Keyed(mkv) = {}

C3_Witness ==
    /\ Returned
    /\ \E mkv \in DOMAIN module_dict : \E n \in BootEntryDirs :
           /\ HasLinux(n)
           /\ boot[n].parse = <<mkv>>
           /\ n # mkv
           /\ Len(module_dict[mkv]) = 2

\* C4: a call whose exclusions contain KERNEL ends in the assertion failure
\* with no directory enumerated and no Kernel list.
C4_KernelExcludedFailsFirst ==
    (pc # "ready" /\ "KERNEL" \in exclusions) =>
        /\ pc = "AssertionError"
        /\ scanned = {}
        /\ kernels = <<>>
        /\ module_dict = <<>>

C4_Witness ==
    /\ pc = "AssertionError"
    /\ BootEntryDirs # {}
    /\ \E n \in ModNames : modules[n].kind = "dir"

\* C5: the Kernel of a boot entry holding a file named linux has exactly one
\* KERNEL record and exactly one EmptyDirectory record, that of the entry.
C5_OneKernelOneEmptyDir ==
    Returned =>
        \A n \in BootEntryDirs :
            HasLinux(n) =>
                /\ Cardinality(Keyed(n)) = 1
                /\ \A i \in Keyed(n) :
                       LET fs == kernels[i].all_files
                       IN  /\ Cardinality({x \in DOMAIN fs : fs[x].ftype = "KERNEL"}) = 1
                           /\ Cardinality({x \in DOMAIN fs :
                                              fs[x].variant = "EmptyDirectory"}) = 1
                           /\ Count(fs, EmptyDirectory(<<BOOTDIR, n>>)) = 1

C5_Witness ==
    /\ Returned
    /\ exclusions = {"INITRAMFS", "MODULES", "MISC"}
    /\ \E n \in BootEntryDirs :
           /\ HasLinux(n)
           /\ boot[n].files = {"linux", "initrd", "config"}
           /\ n \in merged

\* C8: a file named linux that does not parse stays in its Kernel as a generic
\* KERNEL record without internal version; that Kernel holds no KernelImage,
\* gets module records only from the orphan merge of its own name, and every
\* tree matching no parsed image is merged by the orphan pass.
C8_UnparsedImageKept ==
    Returned =>
        \A n \in BootEntryDirs :
            (HasLinux(n) /\ boot[n].parse = <<>>) =>
                /\ Keyed(n) # {}
                /\ \A i \in Keyed(n) :
                       LET fs == kernels[i].all_files
                       IN  /\ Count(fs, GenericFile(<<BOOTDIR, n, "linux">>, "KERNEL")) = 1
                           /\ \A f \in Range(fs) :
                                  /\ f.variant # "KernelImage"
                                  /\ f.internal_version = <<>>
                                  /\ f.path[1] = MODDIR =>
                                         (n \in merged /\ f \in Range(module_dict[n]))
                /\ \A mkv \in DOMAIN module_dict : Unmatched(mkv) => mkv \in merged

C8_Witness ==
    /\ Returned
    /\ \E n \in BootEntryDirs :
           /\ HasLinux(n)
           /\ boot[n].parse = <<>>
           /\ \E mkv \in DOMAIN module_dict :
                  mkv # n /\ module_dict[mkv] # <<>> /\ mkv \in created

\* C9: exactly one Kernel per real, non-hidden boot-entry directory; hidden,
\* symlinked and non-directory entries give no Kernel of the boot pass and no
\* FileRecord, and a hidden file inside an entry gives no FileRecord.
C9_OneKernelPerBootDir ==
    Returned =>
        /\ \A n \in BootEntryDirs : Cardinality(Keyed(n)) = 1
        /\ \A i \in DOMAIN kernels : kernels[i].version \in BootEntryDirs \cup created
        /\ \A n \in SkippedEntries :
               /\ n \notin created => Keyed(n) = {}
               /\ \A i \in DOMAIN kernels : \A f \in Files(kernels[i]) :
                      ~(f.path[1] = BOOTDIR /\ f.path[2] = n)
        /\ \A i \in DOMAIN kernels : \A f \in Files(kernels[i]) :
               (f.path[1] = BOOTDIR /\ Len(f.path) = 3) => f.path[3] \notin DotNames

C9_Witness ==
    /\ Returned
    /\ \E n \in SkippedEntries : boot[n].kind = "symlink" /\ HasLinux(n)
    /\ \E n \in BootEntryDirs : ".keep" \in boot[n].files

\* C10: a non-hidden file of a boot entry, typed by the name table, has its
\* record exactly once in that entry's Kernel and in no other when its type is
\* not excluded, and in no Kernel when its type is excluded.
C10_ExclusionDecidesMembership ==
    Returned =>
        \A n \in BootEntryDirs : \A fn \in boot[n].files \ DotNames :
            \A j \in DOMAIN kernels :
                LET fs == kernels[j].all_files
                    at == {x \in DOMAIN fs : fs[x].path = <<BOOTDIR, n, fn>>}
                IN  /\ Cardinality(at) =
                           (IF TableType(fn) \notin exclusions /\ kernels[j].version = n
                            THEN 1 ELSE 0)
                    /\ \A x \in at : fs[x].ftype = TableType(fn)

C10_Witness ==
    /\ Returned
    /\ \E n \in BootEntryDirs :
           /\ boot[n].files = {"linux", "initrd", "config"}
           /\ exclusions = {"MISC"}

-----------------------------------------------------------------------------
(* Properties of the constructor *)

\* a content without its leading and trailing whitespace
Trimmed(c) ==
    LET ns == {i \in DOMAIN c : c[i] \notin Whitespace}
    IN  IF ns = {} THEN <<>>
        ELSE SubSeq(c, Min(ns), CHOOSE x \in ns : \A y \in ns : y <= x)

\* the candidate parents in the documented order
ProbeOrder == << <<BOOT, EFI>>, <<BOOT, efi>>, <<BOOT>>, <<efi>> >>

\* C6 (as claimed): the token is the trimmed content of the first identity
\* file that exists and is non-empty after trimming; LayoutNotFound when no
\* file qualifies.
C6_FirstNonEmptyIdentity ==
    lpc # "new" =>
        LET q == {i \in DOMAIN IdentityFiles :
                     IdentityFiles[i] # <<>> /\ Trimmed(IdentityFiles[i][1]) # <<>>}
        IN  IF q = {}
            THEN lpc = "LayoutNotFound"
            ELSE kernel_id = <<Trimmed(IdentityFiles[Min(q)][1])>>

\* C6 (amended): the token is the trimmed content of the first identity file
\* that exists, empty or not; LayoutNotFound with no token when neither exists.
C6_FirstExistingIdentity ==
    lpc # "new" =>
        LET q == {i \in DOMAIN IdentityFiles : IdentityFiles[i] # <<>>}
        IN  IF q = {}
            THEN lpc = "LayoutNotFound" /\ kernel_id = <<>>
            ELSE kernel_id = <<Trimmed(IdentityFiles[Min(q)][1])>>

C6_Witness ==
    /\ lpc = "constructed"
    /\ entryToken = << <<" ">> >>
    /\ machineId = << <<"a", "\n">> >>
    /\ kernel_id = << <<>> >>

\* C7: with a token read, the boot directory is the first of boot/EFI,
\* boot/efi, boot, efi joined with the token that is a directory, and
\* construction fails with LayoutNotFound when none is.
C7_FirstExistingBootDir ==
    (lpc # "new" /\ kernel_id # <<>>) =>
        LET tail == IF kernel_id[1] = <<>> THEN <<>> ELSE <<kernel_id[1]>>
            hits == {i \in DOMAIN ProbeOrder : ProbeOrder[i] \o tail \in dirs}
        IN  IF hits = {}
            THEN lpc = "LayoutNotFound"
            ELSE /\ lpc = "constructed"
                 /\ bootdir = <<ProbeOrder[Min(hits)] \o tail>>

C7_Witness ==
    /\ lpc = "constructed"
    /\ kernel_id = << <<"a">> >>
    /\ bootdir = << <<BOOT, efi, <<"a">>>> >>
    /\ <<BOOT, <<"a">>>> \in dirs
    /\ <<efi, <<"a">>>> \in dirs
    /\ <<BOOT, EFI>> \in dirs

====
